---- MODULE Spec2Model ----
(***************************************************************************)
(* The Step Functions workflow declared by TranslateStack                  *)
(* (translate/translate_stack.py): one execution of the state machine      *)
(* "TranslationStateMachine", interpreted with the Amazon States Language  *)
(* rules for Pass, Task, Wait, Choice and Fail states, input/output        *)
(* processing (Parameters, ResultPath) and the whole-execution timeout.    *)
(***************************************************************************)
EXTENDS Integers, Sequences, FiniteSets, TLC

(***************************************************************************)
(* Bounds of the model and constants of the program                        *)
(***************************************************************************)
\* Object keys of the uploads the trigger reports.
Keys == {"uploads/a.wav", "uploads/b.wav"}

\* bucket.bucket_name of the AudioBucket, and a bucket name that is not it.
BucketName == "b"
BucketNames == {BucketName, "other"}

\* Language codes the transcription job can identify.
Languages == {"en-US", "fr-FR"}

\* Transcripts the transcription job can produce.
Transcripts == {"bonjour"}

\* Status values getTranscriptionJob can report.
Statuses == {"QUEUED", "IN_PROGRESS", "COMPLETED", "FAILED", "UNKNOWN"}

\* Duration.seconds(30) of WaitForTranscription.
WaitSeconds == 30

\* Duration.minutes(10) of the state machine.
TimeoutMinutes == 10
TimeoutSeconds == TimeoutMinutes * 60

\* Longest time, in seconds, a service call that answers takes in the model
\* (a call takes 0 or MaxTaskSeconds seconds, or never answers in time).
MaxTaskSeconds == 30
TaskDurations == {0, MaxTaskSeconds}

NoError == "None"
NoCause == "None"

(***************************************************************************)
(* States Language helpers: JSONPath lookup, States.Format, ResultPath     *)
(***************************************************************************)
RECURSIVE HasPath(_, _)
\* TRUE iff the reference path (a sequence of field names) selects a value.
HasPath(d, path) ==
    IF path = <<>> THEN TRUE
    ELSE /\ Head(path) \in DOMAIN d
         /\ HasPath(d[Head(path)], Tail(path))

RECURSIVE GetPath(_, _)
GetPath(d, path) ==
    IF path = <<>> THEN d ELSE GetPath(d[Head(path)], Tail(path))

RECURSIVE StatesFormat(_, _)
\* States.Format: the template is given by its text pieces around the {}
\* placeholders; the arguments fill the placeholders from left to right.
StatesFormat(pieces, args) ==
    IF Len(pieces) = 1 THEN pieces[1]
    ELSE pieces[1] \o args[1] \o StatesFormat(Tail(pieces), Tail(args))

\* ResultPath "$.field": the result is merged into the input under field.
WithResult(d, field, result) == (field :> result) @@ d

VARIABLES
    trigger,   \* the payload the execution was started with
    state,     \* name of the current state of the workflow
    status,    \* execution status: RUNNING, SUCCEEDED, FAILED, TIMED_OUT
    error,     \* error name of a failed execution, NoError otherwise
    doc,       \* the state input: the JSON document threaded through
    elapsed,   \* seconds since the execution started
    calls,     \* service calls issued so far, in order
    objects,   \* objects written to the bucket by putObject
    output,    \* {execution output} once SUCCEEDED, {} otherwise
    cause,     \* cause (diagnostic text) of a failed execution, NoCause otherwise
    jobs       \* names of the transcription jobs the Transcribe service holds

vars == <<trigger, state, status, error, doc, elapsed, calls, objects, output,
          cause, jobs>>

Running == status = "RUNNING"

(***************************************************************************)
(* Trigger payloads.  The state machine reads $.requestParameters.key;     *)
(* the EventBridge rule matches events on detail.bucket.name and           *)
(* detail.object.key and passes the matched event as the input.            *)
(***************************************************************************)
RequestPayload(b, k) == [requestParameters |-> [bucketName |-> b, key |-> k]]
EventPayload(b, k) == [detail |-> [bucket |-> [name |-> b], object |-> [key |-> k]]]

Payloads ==
    {RequestPayload(b, k) : b \in BucketNames, k \in Keys}
        \cup {EventPayload(BucketName, k) : k \in Keys}

Init ==
    /\ trigger \in Payloads
    /\ state = "Preprocess"
    /\ status = "RUNNING"
    /\ error = NoError
    /\ doc = trigger
    /\ elapsed = 0
    /\ calls = <<>>
    /\ objects = {}
    /\ output = {}
    /\ cause = NoCause
    /\ jobs = {}

(***************************************************************************)
(* Ways a state ends                                                       *)
(***************************************************************************)
\* The state transitions to next with document d, in no time.
GoTo(next, d) ==
    /\ state' = next
    /\ doc' = d
    /\ UNCHANGED <<trigger, status, error, elapsed, calls, objects, output, cause, jobs>>

\* FailExecution with the slip of handing the document out as a result.
FailExecution_WithOutput(err) ==
    /\ status' = "FAILED"
    /\ error' = err
    /\ output' = {doc}
    /\ cause' = NoCause
    /\ UNCHANGED <<trigger, state, doc, elapsed, calls, objects, jobs>>

\* The execution fails with error name err and no cause: sfn.Fail is given
\* an error and no cause.  Nothing else changes.
FailExecution(err) ==
    /\ status' = "FAILED"
    /\ error' = err
    /\ cause' = NoCause
    /\ UNCHANGED <<trigger, state, doc, elapsed, calls, objects, output, jobs>>

\* An end state (no Next) succeeds: the execution output is its output.
Succeed(d) ==
    /\ status' = "SUCCEEDED"
    /\ doc' = d
    /\ output' = {d}
    /\ UNCHANGED <<trigger, state, error, elapsed, calls, objects, cause, jobs>>

(***************************************************************************)
(* Task states (tasks.CallAwsService): parameters and service responses    *)
(***************************************************************************)
TaskStates == {"Transcribe", "GetTranscriptionJob", "Translate", "Polly", "SaveToS3"}

\* Reference paths the Parameters of a task state read from its input.
ParameterPaths(s) ==
    CASE s = "Transcribe" -> {<<"TranscriptionJobName">>, <<"OriginalKey">>}
      [] s = "GetTranscriptionJob" -> {<<"TranscriptionJobName">>}
      [] s = "Translate" ->
            {<<"TranscriptionResult", "TranscriptionJob", "Transcript">>,
             <<"TranscriptionResult", "TranscriptionJob", "LanguageCode">>}
      [] s = "Polly" -> {<<"TranslationResult", "TranslatedText">>}
      [] s = "SaveToS3" ->
            {<<"TranscriptionJobName">>, <<"pollyResult", "AudioStream">>}

\* A state whose Parameters name a path the input lacks fails (States.Runtime)
\* before any call is made.
ParametersResolve(s, d) == \A path \in ParameterPaths(s) : HasPath(d, path)

TranscribeParameters(d) ==
    [TranscriptionJobName |-> d.TranscriptionJobName,
     Media |-> [MediaFileUri |->
                  StatesFormat(<<"s3://", "/", "">>, <<BucketName, d.OriginalKey>>)],
     OutputBucketName |-> BucketName,
     OutputKey |-> StatesFormat(<<"transcriptions/", ".json">>,
                                <<d.TranscriptionJobName>>),
     IdentifyLanguage |-> TRUE]

\* GetTranscriptionParameters with the slip of polling under the object key.
GetTranscriptionParameters_ByKey(d) ==
    [TranscriptionJobName |-> d.OriginalKey]

GetTranscriptionParameters(d) ==
    [TranscriptionJobName |-> d.TranscriptionJobName]

TranslateParameters(d) ==
    [Text |-> d.TranscriptionResult.TranscriptionJob.Transcript,
     SourceLanguageCode |-> d.TranscriptionResult.TranscriptionJob.LanguageCode,
     TargetLanguageCode |-> "en"]

PollyParameters(d) ==
    [OutputFormat |-> "mp3",
     Text |-> d.TranslationResult.TranslatedText,
     VoiceId |-> "Joanna"]

SaveToS3Parameters(d) ==
    [Bucket |-> BucketName,
     Key |-> StatesFormat(<<"translations/", ".mp3">>, <<d.TranscriptionJobName>>),
     Body |-> d.pollyResult.AudioStream]

TaskParameters(s, d) ==
    CASE s = "Transcribe" -> TranscribeParameters(d)
      [] s = "GetTranscriptionJob" -> GetTranscriptionParameters(d)
      [] s = "Translate" -> TranslateParameters(d)
      [] s = "Polly" -> PollyParameters(d)
      [] s = "SaveToS3" -> SaveToS3Parameters(d)

\* Answers of the services.
Answer(value) == [ok |-> TRUE, value |-> value]
NoAnswer == [ok |-> FALSE, error |-> "States.Timeout", cause |-> NoCause]

\* service= of the task states: a failed call is reported under the name of
\* its service.
ServiceOf(s) ==
    CASE s \in {"Transcribe", "GetTranscriptionJob"} -> "Transcribe"
      [] s = "Translate" -> "Translate"
      [] s = "Polly" -> "Polly"
      [] s = "SaveToS3" -> "S3"

ServiceError(s) ==
    [ok |-> FALSE, error |-> ServiceOf(s) \o ".ServiceException",
     cause |-> "service message"]

\* Answer of startTranscriptionJob to a job name the service already holds.
ConflictError ==
    [ok |-> FALSE, error |-> "Transcribe.ConflictException",
     cause |-> "job name already exists"]

\* startTranscriptionJob starts a job under a new name.  The source does not
\* say what the service does with a name it holds already: it may answer
\* with the job it holds or reject the request.
StartTranscriptionAnswers(p) ==
    IF p.TranscriptionJobName \in jobs
    THEN {Answer([TranscriptionJob |->
                    [TranscriptionJobName |-> p.TranscriptionJobName,
                     TranscriptionJobStatus |-> "IN_PROGRESS"]]),
          ConflictError}
    ELSE {Answer([TranscriptionJob |->
                    [TranscriptionJobName |-> p.TranscriptionJobName,
                     TranscriptionJobStatus |-> "IN_PROGRESS"]])}

\* The jobs the service holds after state s called it with p and got r.
JobsAfter(s, p, r) ==
    IF s = "Transcribe" /\ r.ok THEN jobs \cup {p.TranscriptionJobName} ELSE jobs

GetTranscriptionAnswers(p) ==
    {Answer([TranscriptionJob |->
                [TranscriptionJobName |-> p.TranscriptionJobName,
                 TranscriptionJobStatus |-> s]]) : s \in Statuses \ {"COMPLETED"}}
    \cup
    {Answer([TranscriptionJob |->
                [TranscriptionJobName |-> p.TranscriptionJobName,
                 TranscriptionJobStatus |-> "COMPLETED",
                 LanguageCode |-> l,
                 Transcript |-> t]]) : l \in Languages, t \in Transcripts}

TranslateAnswers(p) ==
    {Answer([TranslatedText |-> "en(" \o p.Text \o ")",
             SourceLanguageCode |-> p.SourceLanguageCode,
             TargetLanguageCode |-> p.TargetLanguageCode])}

PollyAnswers(p) == {Answer([AudioStream |-> "mp3(" \o p.Text \o ")"])}

PutObjectAnswers(p) == {Answer([ETag |-> "etag"])}

Call(s, p, r) == [state |-> s, parameters |-> p, result |-> r]

\* TaskDone with the slip of a task that calls again after an error.
TaskDone_Retry(s, d, r, next, d2) ==
    /\ elapsed + d < TimeoutSeconds
    /\ elapsed' = elapsed + d
    /\ calls' = Append(calls, Call(s, TaskParameters(s, doc), r))
    /\ state' = IF r.ok THEN next ELSE state
    /\ doc' = IF r.ok THEN d2 ELSE doc
    /\ jobs' = JobsAfter(s, TaskParameters(s, doc), r)
    /\ UNCHANGED <<trigger, status, error, cause, objects, output>>

\* A task state that called the service in d seconds and got answer r.  No
\* Retry and no Catch is declared: an error fails the execution.  On success
\* the state's output d2 goes to next.
TaskDone(s, d, r, next, d2) ==
    /\ elapsed + d < TimeoutSeconds
    /\ elapsed' = elapsed + d
    /\ calls' = Append(calls, Call(s, TaskParameters(s, doc), r))
    /\ IF r.ok
       THEN /\ state' = next
            /\ doc' = d2
            /\ UNCHANGED <<status, error, cause>>
       ELSE /\ status' = "FAILED"
            /\ error' = r.error
            /\ cause' = r.cause
            /\ UNCHANGED <<state, doc>>
    /\ jobs' = JobsAfter(s, TaskParameters(s, doc), r)
    /\ UNCHANGED <<trigger, objects, output>>

(***************************************************************************)
(* The states of the workflow                                              *)
(***************************************************************************)
\* PreprocessParameters with the slip of formatting the bucket into the name.
PreprocessParameters_WithBucket(d) ==
    [TranscriptionJobName |->
        StatesFormat(<<"", "", "_job">>,
                     <<d.requestParameters.bucketName, d.requestParameters.key>>),
     OriginalKey |-> d.requestParameters.key]

\* Parameters of the Preprocess Pass state, which replace its input.
PreprocessParameters(d) ==
    [TranscriptionJobName |->
        StatesFormat(<<"", "_job">>, <<d.requestParameters.key>>),
     OriginalKey |-> d.requestParameters.key]

Preprocess ==
    /\ Running
    /\ state = "Preprocess"
    /\ IF HasPath(doc, <<"requestParameters", "key">>)
       THEN GoTo("Transcribe", PreprocessParameters(doc))
       ELSE FailExecution("States.Runtime")

Transcribe ==
    /\ Running
    /\ state = "Transcribe"
    /\ IF ParametersResolve("Transcribe", doc)
       THEN \E d \in TaskDurations :
            \E r \in StartTranscriptionAnswers(TranscribeParameters(doc))
                        \cup {ServiceError("Transcribe")} :
                TaskDone("Transcribe", d, r, "WaitForTranscription",
                         IF r.ok THEN WithResult(doc, "TranscriptionResult", r.value)
                                 ELSE doc)
       ELSE FailExecution("States.Runtime")

\* WaitForTranscription with the slip of a wait the timeout does not cut.
WaitForTranscription_Uncut ==
    /\ Running
    /\ state = "WaitForTranscription"
    /\ elapsed' = elapsed + WaitSeconds
    /\ state' = "GetTranscriptionJob"
    /\ UNCHANGED <<trigger, status, error, doc, calls, objects, output, cause, jobs>>

WaitForTranscription ==
    /\ Running
    /\ state = "WaitForTranscription"
    /\ elapsed + WaitSeconds < TimeoutSeconds
    /\ elapsed' = elapsed + WaitSeconds
    /\ state' = "GetTranscriptionJob"
    /\ UNCHANGED <<trigger, status, error, doc, calls, objects, output, cause, jobs>>

GetTranscriptionJob ==
    /\ Running
    /\ state = "GetTranscriptionJob"
    /\ IF ParametersResolve("GetTranscriptionJob", doc)
       THEN \E d \in TaskDurations :
            \E r \in GetTranscriptionAnswers(GetTranscriptionParameters(doc))
                        \cup {ServiceError("GetTranscriptionJob")} :
                TaskDone("GetTranscriptionJob", d, r, "CheckJobStatus",
                         IF r.ok THEN WithResult(doc, "GetTranscriptionResult", r.value)
                                 ELSE doc)
       ELSE FailExecution("States.Runtime")

StatusPath == <<"GetTranscriptionResult", "TranscriptionJob", "TranscriptionJobStatus">>
is_completed(d) == GetPath(d, StatusPath) = "COMPLETED"
is_in_progress(d) == GetPath(d, StatusPath) = "IN_PROGRESS"

\* CheckJobStatusNext with the slip of capturing whatever is not in progress.
CheckJobStatusNext_CaptureRest(d) ==
    IF is_in_progress(d) THEN "LoopBackPass" ELSE "CaptureTranscriptionResult"

\* CheckJobStatusNext with the slip of looping on every unfinished status.
CheckJobStatusNext_NoOtherwise(d) ==
    IF is_completed(d) THEN "CaptureTranscriptionResult" ELSE "LoopBackPass"

\* Target of the CheckJobStatus Choice state.
CheckJobStatusNext(d) ==
    IF is_completed(d) THEN "CaptureTranscriptionResult"
    ELSE IF is_in_progress(d) THEN "LoopBackPass"
    ELSE "TranscriptionFailed"

CheckJobStatus ==
    /\ Running
    /\ state = "CheckJobStatus"
    /\ IF HasPath(doc, StatusPath)
       THEN GoTo(CheckJobStatusNext(doc), doc)
       ELSE FailExecution("States.Runtime")

\* LoopBackPass with the slip of looping back to the submission.
LoopBackPass_ToTranscribe ==
    /\ Running
    /\ state = "LoopBackPass"
    /\ GoTo("Transcribe", [TranscriptionJobName |-> doc.TranscriptionJobName,
                           OriginalKey |-> doc.OriginalKey])

\* LoopBackPass with the slip of looping back to the poll, not to the wait.
LoopBackPass_ToPoll ==
    /\ Running
    /\ state = "LoopBackPass"
    /\ GoTo("GetTranscriptionJob", doc)

LoopBackPass ==
    /\ Running
    /\ state = "LoopBackPass"
    /\ GoTo("WaitForTranscription", doc)

TranscriptionFailed ==
    /\ Running
    /\ state = "TranscriptionFailed"
    /\ FailExecution("TranscriptionJobFailed")

\* Parameters of the CaptureTranscriptionResult Pass state; with no
\* result_path they replace the input of the state.
CaptureParameters(d) == [TranscriptionResult |-> d.GetTranscriptionResult]

CaptureTranscriptionResult ==
    /\ Running
    /\ state = "CaptureTranscriptionResult"
    /\ IF HasPath(doc, <<"GetTranscriptionResult">>)
       THEN GoTo("Check Language", CaptureParameters(doc))
       ELSE FailExecution("States.Runtime")

LanguagePath == <<"TranscriptionResult", "TranscriptionJob", "LanguageCode">>
is_english(d) == GetPath(d, LanguagePath) = "en-US"

\* CheckLanguageNext with the slip of swapped branches.
CheckLanguageNext_Swapped(d) ==
    IF is_english(d) THEN "Translate" ELSE "Skip Translation"

CheckLanguageNext(d) == IF is_english(d) THEN "Skip Translation" ELSE "Translate"

CheckLanguage ==
    /\ Running
    /\ state = "Check Language"
    /\ IF HasPath(doc, LanguagePath)
       THEN GoTo(CheckLanguageNext(doc), doc)
       ELSE FailExecution("States.Runtime")

SkipTranslation ==
    /\ Running
    /\ state = "Skip Translation"
    /\ Succeed(doc)

Translate ==
    /\ Running
    /\ state = "Translate"
    /\ IF ParametersResolve("Translate", doc)
       THEN \E d \in TaskDurations :
            \E r \in TranslateAnswers(TranslateParameters(doc))
                        \cup {ServiceError("Translate")} :
                TaskDone("Translate", d, r, "Polly",
                         IF r.ok THEN WithResult(doc, "TranslationResult", r.value)
                                 ELSE doc)
       ELSE FailExecution("States.Runtime")

Polly ==
    /\ Running
    /\ state = "Polly"
    /\ IF ParametersResolve("Polly", doc)
       THEN \E d \in TaskDurations :
            \E r \in PollyAnswers(PollyParameters(doc)) \cup {ServiceError("Polly")} :
                TaskDone("Polly", d, r, "SaveToS3",
                         IF r.ok THEN WithResult(doc, "pollyResult", r.value)
                                 ELSE doc)
       ELSE FailExecution("States.Runtime")

\* SaveToS3 is an end state with no result_path: on success the object is in
\* the bucket and the answer of putObject is the execution output.
SaveToS3 ==
    /\ Running
    /\ state = "SaveToS3"
    /\ IF ParametersResolve("SaveToS3", doc)
       THEN \E d \in TaskDurations :
            \E r \in PutObjectAnswers(SaveToS3Parameters(doc))
                        \cup {ServiceError("SaveToS3")} :
                /\ elapsed + d < TimeoutSeconds
                /\ elapsed' = elapsed + d
                /\ calls' = Append(calls, Call("SaveToS3", SaveToS3Parameters(doc), r))
                /\ IF r.ok
                   THEN /\ objects' = objects \cup
                                {[Key |-> SaveToS3Parameters(doc).Key,
                                  Body |-> SaveToS3Parameters(doc).Body]}
                        /\ status' = "SUCCEEDED"
                        /\ doc' = r.value
                        /\ output' = {r.value}
                        /\ UNCHANGED <<error, cause>>
                   ELSE /\ status' = "FAILED"
                        /\ error' = r.error
                        /\ cause' = r.cause
                        /\ UNCHANGED <<doc, objects, output>>
                /\ UNCHANGED <<trigger, state, jobs>>
       ELSE FailExecution("States.Runtime")

\* TimeoutDue with the slip of a timeout that watches the calls only.
TimeoutDue_CallsOnly == state \in TaskStates /\ ParametersResolve(state, doc)

\* The state machine's timeout: a wait that would pass the bound, or a
\* service call that does not answer before it, ends the execution with
\* States.Timeout.  A call that was in flight is recorded as unanswered.
TimeoutDue ==
    IF state = "WaitForTranscription"
    THEN elapsed + WaitSeconds >= TimeoutSeconds
    ELSE state \in TaskStates /\ ParametersResolve(state, doc)

Timeout ==
    /\ Running
    /\ TimeoutDue
    /\ status' = "TIMED_OUT"
    /\ error' = "States.Timeout"
    /\ elapsed' = TimeoutSeconds
    /\ calls' = IF state \in TaskStates
                THEN Append(calls, Call(state, TaskParameters(state, doc), NoAnswer))
                ELSE calls
    /\ cause' = NoCause
    /\ UNCHANGED <<trigger, state, doc, objects, output, jobs>>

Next ==
    \/ Preprocess
    \/ Transcribe
    \/ WaitForTranscription
    \/ GetTranscriptionJob
    \/ CheckJobStatus
    \/ LoopBackPass
    \/ TranscriptionFailed
    \/ CaptureTranscriptionResult
    \/ CheckLanguage
    \/ SkipTranslation
    \/ Translate
    \/ Polly
    \/ SaveToS3
    \/ Timeout

Spec == Init /\ [][Next]_vars

\* Another execution of the state machine, started by another event for the
\* object key k, submits its transcription job.  Executions share no
\* document; the job names the Transcribe service holds are the state they
\* share.
OtherTranscribe(k) ==
    /\ PreprocessParameters(RequestPayload(BucketName, k)).TranscriptionJobName
          \notin jobs
    /\ jobs' = jobs \cup
          {PreprocessParameters(RequestPayload(BucketName, k)).TranscriptionJobName}
    /\ UNCHANGED <<trigger, state, status, error, doc, elapsed, calls, objects,
                   output, cause>>

ConcurrentNext ==
    \/ Next
    \/ \E k \in Keys : OtherTranscribe(k)

ConcurrentSpec == Init /\ [][ConcurrentNext]_vars

\* The engine always takes a step that is possible: a running execution is
\* driven on, and the timeout is delivered.
FairSpec == Spec /\ WF_vars(Next)

(***************************************************************************)
(* Observations on an execution                                            *)
(***************************************************************************)
Terminated == status # "RUNNING"

CallsOf(s) == SelectSeq(calls, LAMBDA c : c.state = s)
Issued(s) == Len(CallsOf(s))

\* The polls the service answered, in order, and the job they reported.
AnsweredPolls ==
    SelectSeq(calls, LAMBDA c : c.state = "GetTranscriptionJob" /\ c.result.ok)
Polled == Len(AnsweredPolls) > 0
LastPoll == AnsweredPolls[Len(AnsweredPolls)].result.value.TranscriptionJob

PolledCompleted == Polled /\ LastPoll.TranscriptionJobStatus = "COMPLETED"
PolledEnglish == PolledCompleted /\ LastPoll.LanguageCode = "en-US"
PolledOtherLanguage == PolledCompleted /\ LastPoll.LanguageCode # "en-US"
PolledFailed == Polled /\ LastPoll.TranscriptionJobStatus = "FAILED"
PolledInProgress == Polled /\ LastPoll.TranscriptionJobStatus = "IN_PROGRESS"

NoCallFailed == \A i \in 1..Len(calls) : calls[i].result.ok

\* The key of the uploaded object and the job name Preprocess derives from it.
HasTriggerKey == HasPath(trigger, <<"requestParameters", "key">>)
TriggerKey == trigger.requestParameters.key
JobNameOf(key) == key \o "_job"

\* The states in the order the translation branch calls the services.
TranslationCalls ==
    SelectSeq(calls, LAMBDA c : c.state \in {"Translate", "Polly", "SaveToS3"})

(***************************************************************************)
(* C1.  When the job is polled COMPLETED with a language other than en-US  *)
(* and no service call fails, the finished execution has called Translate, *)
(* then Polly, then SaveToS3, each exactly once and in that order, the     *)
(* putObject call wrote the key "translations/{jobName}.mp3" for the job   *)
(* name Preprocess derived from the trigger key, and the execution         *)
(* succeeded.                                                              *)
(***************************************************************************)
C1_TranslateSynthesizeStore ==
    (Terminated /\ PolledOtherLanguage /\ NoCallFailed) =>
        /\ status = "SUCCEEDED"
        /\ Len(TranslationCalls) = 3
        /\ TranslationCalls[1].state = "Translate"
        /\ TranslationCalls[2].state = "Polly"
        /\ TranslationCalls[3].state = "SaveToS3"
        /\ TranslationCalls[3].parameters.Key =
              "translations/" \o JobNameOf(TriggerKey) \o ".mp3"
        /\ \E o \in objects :
              o.Key = "translations/" \o JobNameOf(TriggerKey) \o ".mp3"

(***************************************************************************)
(* C2.  When the job is polled COMPLETED with language en-US, the          *)
(* execution goes on to succeed in the Skip Translation state: Translate,  *)
(* Polly and SaveToS3 are never called, nothing is put in the bucket, and  *)
(* the document CaptureTranscriptionResult produced is the document of     *)
(* every later state and the output of the execution.                      *)
(***************************************************************************)
C2_Captured == [TranscriptionResult |-> [TranscriptionJob |-> LastPoll]]

C2_EnglishSafe ==
    PolledEnglish =>
        /\ Len(TranslationCalls) = 0
        /\ objects = {}
        /\ state \in {"CheckJobStatus", "CaptureTranscriptionResult",
                      "Check Language", "Skip Translation"}
        /\ state \in {"Check Language", "Skip Translation"} => doc = C2_Captured
        /\ Terminated =>
              /\ status = "SUCCEEDED"
              /\ error = NoError
              /\ state = "Skip Translation"
              /\ output = {C2_Captured}

C2_SkipTranslation ==
    /\ []C2_EnglishSafe
    /\ PolledEnglish ~> (status = "SUCCEEDED" /\ state = "Skip Translation")

C2_Witness ==
    PolledEnglish /\ status = "SUCCEEDED" /\ state = "Skip Translation"

(***************************************************************************)
(* C3.  When a poll reports FAILED, the execution goes on to end in the    *)
(* Fail state TranscriptionFailed with error "TranscriptionJobFailed", and *)
(* Translate, Polly and SaveToS3 are called at no point of the execution.  *)
(***************************************************************************)
C3_FailedSafe ==
    PolledFailed =>
        /\ Len(TranslationCalls) = 0
        /\ objects = {}
        /\ state \in {"CheckJobStatus", "TranscriptionFailed"}
        /\ Terminated =>
              /\ status = "FAILED"
              /\ state = "TranscriptionFailed"
              /\ error = "TranscriptionJobFailed"
              /\ output = {}

C3_TranscriptionFailed ==
    /\ []C3_FailedSafe
    /\ PolledFailed ~> (status = "FAILED" /\ state = "TranscriptionFailed"
                           /\ error = "TranscriptionJobFailed")

C3_Witness ==
    PolledFailed /\ status = "FAILED" /\ error = "TranscriptionJobFailed"

(***************************************************************************)
(* C4.  Whenever a poll reports IN_PROGRESS, CheckJobStatus goes to        *)
(* LoopBackPass, which goes to WaitForTranscription, which goes to         *)
(* GetTranscriptionJob: no call is made and no other state is entered in   *)
(* between, the loop is taken only on IN_PROGRESS, and the cycle goes on   *)
(* until a poll reports something else or the execution's bound ends it.   *)
(***************************************************************************)
C4_LoopOnlyInProgress ==
    (Running /\ Polled /\ state \in {"LoopBackPass", "WaitForTranscription"})
        => PolledInProgress

C4_PollLoop ==
    /\ []C4_LoopOnlyInProgress
    /\ [][(Running /\ state = "CheckJobStatus" /\ PolledInProgress) =>
            (state' = "LoopBackPass" /\ status' = "RUNNING" /\ calls' = calls)]_vars
    /\ [][(Running /\ state = "LoopBackPass") =>
            (state' = "WaitForTranscription" /\ status' = "RUNNING"
                /\ calls' = calls /\ doc' = doc)]_vars
    /\ [][(Running /\ state = "WaitForTranscription") =>
            \/ (state' = "GetTranscriptionJob" /\ status' = "RUNNING"
                   /\ calls' = calls /\ doc' = doc)
            \/ status' = "TIMED_OUT"]_vars
    /\ (Running /\ state = "CheckJobStatus" /\ PolledInProgress)
          ~> ((Running /\ state = "GetTranscriptionJob") \/ status = "TIMED_OUT")

\* Polled IN_PROGRESS twice, waited each time, and polled again.
C4_Witness ==
    /\ Len(AnsweredPolls) = 3
    /\ AnsweredPolls[1].result.value.TranscriptionJob.TranscriptionJobStatus = "IN_PROGRESS"
    /\ AnsweredPolls[2].result.value.TranscriptionJob.TranscriptionJobStatus = "IN_PROGRESS"
    /\ PolledCompleted
    /\ elapsed >= 3 * WaitSeconds
    /\ state = "CheckJobStatus"

(***************************************************************************)
(* C5.  Every execution ends, whatever the polls and the service calls     *)
(* answer (a job that is IN_PROGRESS for ever included): it ends as a      *)
(* success of SaveToS3, as a success of Skip Translation, or as a failed   *)
(* execution with an error name; nothing runs after the end; and a running *)
(* execution always has a next step.                                       *)
(***************************************************************************)
C5_TerminalOutcome ==
    Terminated =>
        \/ status = "SUCCEEDED" /\ state = "SaveToS3" /\ error = NoError
        \/ status = "SUCCEEDED" /\ state = "Skip Translation" /\ error = NoError
        \/ status \in {"FAILED", "TIMED_OUT"} /\ error # NoError

C5_Terminates ==
    /\ <>Terminated
    /\ []C5_TerminalOutcome
    /\ [][Terminated => UNCHANGED vars]_vars
    /\ [](Running => ENABLED Next)

\* The job was IN_PROGRESS at every poll and the execution ended all the same.
C5_Witness ==
    /\ Terminated
    /\ Len(AnsweredPolls) >= 5
    /\ \A i \in 1..Len(AnsweredPolls) :
          AnsweredPolls[i].result.value.TranscriptionJob.TranscriptionJobStatus
              = "IN_PROGRESS"

(***************************************************************************)
(* C6.  The claim as stated: when polling stops with the job still         *)
(* IN_PROGRESS, the execution has failed with a PollTimeout outcome.       *)
(***************************************************************************)
C6_PollTimeoutOutcome ==
    (Terminated /\ PolledInProgress /\ state = "WaitForTranscription")
        => (status = "FAILED" /\ error = "PollTimeout")

(***************************************************************************)
(* C6, amended.  The polling loop counts no attempts: the state machine's  *)
(* timeout alone bounds it.  One wait of WaitSeconds precedes every poll,  *)
(* so fewer than TimeoutSeconds / WaitSeconds polls are made, and when the *)
(* job is still IN_PROGRESS as the bound is reached the execution stops    *)
(* polling and ends TIMED_OUT with error States.Timeout.                   *)
(***************************************************************************)
MaxPolls == (TimeoutSeconds - 1) \div WaitSeconds

C6_TimeBoundedPolling ==
    /\ Issued("GetTranscriptionJob") <= MaxPolls
    /\ Issued("GetTranscriptionJob") * WaitSeconds <= elapsed
    /\ (Terminated /\ PolledInProgress /\ state = "WaitForTranscription")
          => (status = "TIMED_OUT" /\ error = "States.Timeout"
                 /\ elapsed >= TimeoutSeconds)

C6_Witness ==
    /\ status = "TIMED_OUT"
    /\ state = "WaitForTranscription"
    /\ PolledInProgress
    /\ Issued("GetTranscriptionJob") = MaxPolls

(***************************************************************************)
(* C7.  No state of a running execution is active once the time bound of   *)
(* the state machine is reached: a wait that would pass the bound, and a   *)
(* call still unanswered at the bound, end the execution TIMED_OUT with    *)
(* error States.Timeout and no output, and after that (as after any end)   *)
(* no state runs and no call is made.                                      *)
(***************************************************************************)
C7_WithinBound ==
    /\ Running => elapsed < TimeoutSeconds
    /\ status = "TIMED_OUT" =>
          (error = "States.Timeout" /\ output = {} /\ elapsed >= TimeoutSeconds)
    /\ (Running /\ state \in TaskStates /\ ParametersResolve(state, doc))
          => ENABLED Timeout

C7_TimeoutAborts ==
    /\ []C7_WithinBound
    /\ [][(Running /\ state = "WaitForTranscription"
             /\ elapsed + WaitSeconds >= TimeoutSeconds)
            => (status' = "TIMED_OUT" /\ calls' = calls)]_vars
    /\ [][status = "TIMED_OUT" => UNCHANGED vars]_vars

C7_Witness ==
    /\ status = "TIMED_OUT"
    /\ state = "GetTranscriptionJob"
    /\ Issued("GetTranscriptionJob") = 2

(***************************************************************************)
(* C8.  At the end of an execution at most one of a stored artifact and a  *)
(* failure is set: an execution with an object put in the bucket carries   *)
(* no error, and a failed or timed-out execution has no output and no      *)
(* stored object, while a succeeded one has an output and no error.        *)
(***************************************************************************)
C8_ExclusiveOutcome ==
    Terminated =>
        /\ ~ (objects # {} /\ error # NoError)
        /\ status \in {"FAILED", "TIMED_OUT"} =>
              (error # NoError /\ output = {} /\ objects = {})
        /\ status = "SUCCEEDED" => (error = NoError /\ output # {})

\* The audio was synthesized and the execution failed in SaveToS3.
C8_Witness ==
    /\ status = "FAILED"
    /\ state = "SaveToS3"
    /\ Issued("Polly") = 1
    /\ HasPath(doc, <<"pollyResult", "AudioStream">>)

(***************************************************************************)
(* C9.  The document only grows: once OriginalKey and TranscriptionJobName *)
(* are set, every later step keeps them with their values, and no step     *)
(* changes or drops a field an earlier state wrote (the poll result, which *)
(* GetTranscriptionJob refreshes at every poll, apart).                    *)
(***************************************************************************)
C9_Kept(f) == f \in DOMAIN doc => (f \in DOMAIN doc' /\ doc'[f] = doc[f])

C9_AppendOnly ==
    [][state # "Preprocess" =>
          \A f \in {"OriginalKey", "TranscriptionJobName", "TranscriptionResult",
                    "TranslationResult", "pollyResult"} : C9_Kept(f)]_vars

(***************************************************************************)
(* C10.  The job name Preprocess derives is the trigger key followed by    *)
(* "_job": it is the name in the document and the name every Transcribe    *)
(* submission carries, and Preprocess run on any payload with the same key *)
(* derives the same name; an input without $.requestParameters.key gets no *)
(* name and no submission.                                                 *)
(***************************************************************************)
C10_JobName ==
    /\ (HasTriggerKey /\ state # "Preprocess"
           /\ HasPath(doc, <<"TranscriptionJobName">>)) =>
          /\ doc.TranscriptionJobName = TriggerKey \o "_job"
          /\ doc.OriginalKey = TriggerKey
          /\ \A p \in Payloads :
                (HasPath(p, <<"requestParameters", "key">>)
                    /\ p.requestParameters.key = TriggerKey)
                => PreprocessParameters(p).TranscriptionJobName
                      = doc.TranscriptionJobName
    /\ \A i \in 1..Len(calls) :
          calls[i].state = "Transcribe" =>
              calls[i].parameters.TranscriptionJobName = TriggerKey \o "_job"
    /\ ~ HasTriggerKey =>
          (calls = <<>> /\ ~ HasPath(doc, <<"TranscriptionJobName">>))

C10_Witness ==
    /\ trigger = RequestPayload("other", "uploads/b.wav")
    /\ Issued("Transcribe") = 1
    /\ HasPath(doc, <<"TranscriptionJobName">>)
    /\ doc.TranscriptionJobName = "uploads/b.wav_job"

(***************************************************************************)
(* C11.  A Transcribe, Translate, Polly or SaveToS3 call that returns an   *)
(* error is the last call of the execution: it is not made again, no later *)
(* state runs, and the execution is FAILED in the state that called, with  *)
(* the error of the call and no output.                                    *)
(***************************************************************************)
C11_Stages == {"Transcribe", "Translate", "Polly", "SaveToS3"}

C11_ErrorIsFatal ==
    \A i \in 1..Len(calls) :
        (calls[i].state \in C11_Stages
            /\ calls[i].result = ServiceError(calls[i].state)) =>
            /\ i = Len(calls)
            /\ status = "FAILED"
            /\ state = calls[i].state
            /\ error = calls[i].result.error
            /\ output = {}
            /\ objects = {}

C11_Witness ==
    /\ status = "FAILED"
    /\ state = "Translate"
    /\ Issued("Translate") = 1
    /\ calls[Len(calls)].result = ServiceError("Translate")

C13_Independent ==
    /\ [][(jobs' # jobs /\ calls' = calls) =>
            UNCHANGED <<trigger, state, status, error, doc, elapsed, objects,
                        output, cause>>]_vars
    /\ [](\A i \in 1..Len(calls) : calls[i].result # ConflictError)

(***************************************************************************)
(* C14.  A Transcribe submission under a job name the service already      *)
(* holds is not rejected for the name; when it is answered, no second job  *)
(* exists and the execution goes on to WaitForTranscription.               *)
(***************************************************************************)
C14_IdempotentResubmission ==
    [][(Running /\ state = "Transcribe" /\ ParametersResolve("Transcribe", doc)
          /\ TranscribeParameters(doc).TranscriptionJobName \in jobs
          /\ Len(calls') = Len(calls) + 1) =>
         /\ calls'[Len(calls')].result # ConflictError
         /\ calls'[Len(calls')].result.ok =>
               (jobs' = jobs /\ state' = "WaitForTranscription"
                   /\ status' = "RUNNING")]_vars

(***************************************************************************)
(* C15.  The document holds a transcript or a language code only after a   *)
(* poll reported COMPLETED, the states after the capture run only on the   *)
(* job that poll reported, and a translated text is in the document (and   *)
(* Translate is called) only when that job's language is not en-US.        *)
(***************************************************************************)
C15_JobPaths ==
    {<<r, "TranscriptionJob", f>> :
        r \in {"TranscriptionResult", "GetTranscriptionResult"},
        f \in {"Transcript", "LanguageCode"}}

C15_AfterCapture ==
    state \in {"Check Language", "Skip Translation", "Translate", "Polly", "SaveToS3"}

C15_PopulatedOnlyWhenResolved ==
    /\ (\E path \in C15_JobPaths : HasPath(doc, path)) => PolledCompleted
    /\ C15_AfterCapture =>
          (PolledCompleted /\ doc.TranscriptionResult.TranscriptionJob = LastPoll)
    /\ HasPath(doc, <<"TranslationResult">>) =>
          /\ PolledOtherLanguage
          /\ doc.TranslationResult.SourceLanguageCode = LastPoll.LanguageCode
    /\ Issued("Translate") > 0 => PolledOtherLanguage

C15_Witness ==
    /\ HasPath(doc, <<"TranslationResult", "TranslatedText">>)
    /\ doc.TranscriptionResult.TranscriptionJob.LanguageCode = "fr-FR"
    /\ doc.TranscriptionResult.TranscriptionJob.Transcript = "bonjour"
    /\ state = "Polly"

(***************************************************************************)
(* C16.  CheckJobStatus takes exactly one transition for every status a    *)
(* poll can report: COMPLETED to CaptureTranscriptionResult, IN_PROGRESS   *)
(* to LoopBackPass and from there to WaitForTranscription, and every other *)
(* status (FAILED, UNKNOWN, QUEUED) to the Fail state TranscriptionFailed, *)
(* which ends the execution with error "TranscriptionJobFailed".           *)
(***************************************************************************)
C16_Target(s) ==
    CASE s = "COMPLETED" -> "CaptureTranscriptionResult"
      [] s = "IN_PROGRESS" -> "LoopBackPass"
      [] OTHER -> "TranscriptionFailed"

C16_Polled(s) ==
    [GetTranscriptionResult |-> [TranscriptionJob |-> [TranscriptionJobStatus |-> s]]]

C16_Safe ==
    /\ \A s \in Statuses : CheckJobStatusNext(C16_Polled(s)) = C16_Target(s)
    /\ (Running /\ state = "CheckJobStatus") => (Polled /\ ENABLED CheckJobStatus)
    /\ state = "TranscriptionFailed" =>
          /\ Polled
          /\ LastPoll.TranscriptionJobStatus \notin {"COMPLETED", "IN_PROGRESS"}
          /\ Terminated => (status = "FAILED" /\ error = "TranscriptionJobFailed")

C16_CheckJobStatusTotal ==
    /\ []C16_Safe
    /\ [][(Running /\ state = "CheckJobStatus") =>
            /\ state' = C16_Target(LastPoll.TranscriptionJobStatus)
            /\ status' = "RUNNING"
            /\ doc' = doc
            /\ calls' = calls]_vars
    /\ [][(Running /\ state = "LoopBackPass") =>
            (state' = "WaitForTranscription" /\ status' = "RUNNING")]_vars

C16_Witness ==
    /\ state = "TranscriptionFailed"
    /\ LastPoll.TranscriptionJobStatus = "QUEUED"
    /\ status = "FAILED"
    /\ error = "TranscriptionJobFailed"

(***************************************************************************)
(* C17.  GetTranscriptionJob is entered from WaitForTranscription only,    *)
(* after a wait of WaitSeconds; a poll leaves the state, so the next poll  *)
(* needs another wait; every poll made, the first included, has its own    *)
(* wait before it.                                                         *)
(***************************************************************************)
C17_WaitBeforePoll ==
    /\ [][(state' = "GetTranscriptionJob" /\ state # "GetTranscriptionJob") =>
            /\ state = "WaitForTranscription"
            /\ elapsed' = elapsed + WaitSeconds
            /\ calls' = calls]_vars
    /\ [][(state = "GetTranscriptionJob" /\ Len(calls') > Len(calls)) =>
            /\ calls'[Len(calls')].state = "GetTranscriptionJob"
            /\ (state' # "GetTranscriptionJob" \/ status' # "RUNNING")]_vars
    /\ [](Issued("GetTranscriptionJob") * WaitSeconds <= elapsed)
    /\ [](state = "WaitForTranscription" =>
            \/ Issued("GetTranscriptionJob") = 0
            \/ calls[Len(calls)].state = "GetTranscriptionJob")

C17_Witness ==
    /\ Issued("GetTranscriptionJob") = 1
    /\ Issued("Transcribe") = 1
    /\ elapsed = WaitSeconds
    /\ state = "CheckJobStatus"

(***************************************************************************)
(* C18.  Preprocess runs once, at the start, and Transcribe is submitted   *)
(* at most once, as the first call: the states are entered in the order    *)
(* Preprocess, Transcribe, (WaitForTranscription, GetTranscriptionJob)+,   *)
(* CaptureTranscriptionResult, Translate, Polly, SaveToS3, and the only    *)
(* step back is the loop from LoopBackPass to WaitForTranscription.        *)
(***************************************************************************)
C18_Rank(s) ==
    CASE s = "Preprocess" -> 1
      [] s = "Transcribe" -> 2
      [] s = "WaitForTranscription" -> 3
      [] s = "GetTranscriptionJob" -> 4
      [] s = "CheckJobStatus" -> 5
      [] s = "LoopBackPass" -> 6
      [] s = "TranscriptionFailed" -> 6
      [] s = "CaptureTranscriptionResult" -> 6
      [] s = "Check Language" -> 7
      [] s = "Skip Translation" -> 8
      [] s = "Translate" -> 8
      [] s = "Polly" -> 9
      [] s = "SaveToS3" -> 10

C18_Safe ==
    /\ state = "Preprocess" => (calls = <<>> /\ elapsed = 0 /\ doc = trigger)
    /\ Issued("Transcribe") <= 1
    /\ Len(calls) > 0 => calls[1].state = "Transcribe"
    /\ \A i, j \in 1..Len(calls) :
          i < j => C18_Rank(calls[i].state) <= C18_Rank(calls[j].state)
                      /\ calls[j].state # "Transcribe"

C18_StageOrder ==
    /\ []C18_Safe
    /\ [][state' # state =>
            \/ C18_Rank(state') > C18_Rank(state)
            \/ (state = "LoopBackPass" /\ state' = "WaitForTranscription")]_vars

C18_Witness ==
    /\ state = "SaveToS3"
    /\ Len(AnsweredPolls) = 3
    /\ Issued("Transcribe") = 1
    /\ Issued("Polly") = 1

(***************************************************************************)
(* C19.  A failed execution carries an error code that tells its cause:    *)
(* "TranscriptionJobFailed", with the status the job reported as its       *)
(* diagnostic payload, exactly when CheckJobStatus took its otherwise      *)
(* transition, and for a failed service call the error of that call, under *)
(* the name of the service of the state that called, never                 *)
(* "TranscriptionJobFailed".                                               *)
(***************************************************************************)
C19_ErrorCodes ==
    status = "FAILED" =>
        /\ error # NoError
        /\ (error = "TranscriptionJobFailed") <=> (state = "TranscriptionFailed")
        /\ error = "TranscriptionJobFailed" =>
              cause = LastPoll.TranscriptionJobStatus
        /\ (state \in TaskStates /\ error # "States.Runtime") =>
              /\ error = ServiceOf(state) \o ".ServiceException"
              /\ error # "TranscriptionJobFailed"

(***************************************************************************)
(* C20.  Every Transcribe submission carries the job name key + "_job",    *)
(* the media location "s3://{bucket}/{key}" of the uploaded object in the  *)
(* bucket of the stack, and the output key                                 *)
(* "transcriptions/{jobName}.json"; every poll carries the job name of the *)
(* submission.                                                             *)
(***************************************************************************)
C20_Requests ==
    \A i \in 1..Len(calls) :
        /\ calls[i].state = "Transcribe" =>
              /\ calls[i].parameters.TranscriptionJobName = TriggerKey \o "_job"
              /\ calls[i].parameters.Media.MediaFileUri =
                    "s3://" \o BucketName \o "/" \o TriggerKey
              /\ calls[i].parameters.OutputBucketName = BucketName
              /\ calls[i].parameters.OutputKey =
                    "transcriptions/" \o TriggerKey \o "_job.json"
        /\ calls[i].state = "GetTranscriptionJob" =>
              /\ calls[1].state = "Transcribe"
              /\ calls[i].parameters.TranscriptionJobName =
                    calls[1].parameters.TranscriptionJobName
              /\ calls[i].parameters.TranscriptionJobName \in jobs

C20_Witness ==
    /\ HasTriggerKey
    /\ TriggerKey = "uploads/b.wav"
    /\ Issued("GetTranscriptionJob") = 3
    /\ calls[4].parameters.TranscriptionJobName = "uploads/b.wav_job"
    /\ calls[1].parameters.OutputKey = "transcriptions/uploads/b.wav_job.json"

====
